---- MODULE Spec2Model ----
(***************************************************************************)
(* BaseMailer SDK: the hybrid encryption engine (EncryptionManager), the   *)
(* commitment map (InMemoryCidStore), the dispatch protocol               *)
(* (BaseMailerClient.sendMail and EmailService POST /api/send-mail) and    *)
(* the ingestion protocol (EmailService.bootstrapEvents / persistEvent).   *)
(*                                                                         *)
(* Library primitives are modelled by what they compute:                   *)
(*   - secp256k1 is a cyclic group of prime order; a point is written by   *)
(*     its discrete logarithm, its compressed encoding is (format byte, x) *)
(*     and P and -P share the x coordinate;                                *)
(*   - HKDF, HMAC-SHA256, the GCM tag and keccak256 are collision-free     *)
(*     functions of their inputs;                                          *)
(*   - AES-GCM's body encryption is a keystream XOR (counter mode).        *)
(***************************************************************************)
EXTENDS Integers, Sequences, FiniteSets, TLC

\* ------------------------------------------------------------------------
\* Bounds of the model
\* ------------------------------------------------------------------------
\* number of bytes of a symmetric key (randomBytes(32) in the source)
KeyLen == 2
\* number of bytes of a GCM nonce (randomBytes(12) in the source)
IvLen == 1
\* largest value Date.now() returns
MaxClock == 2

\* order of the secp256k1 group (a prime)
CurveOrder == 5

Byte == 0..1
PrivateKeys == 0..CurveOrder
ValidPrivateKeys == 1..(CurveOrder - 1)

RECURSIVE Xor(_, _)
Xor(a, b) ==
  IF a = 0 THEN b
  ELSE IF b = 0 THEN a
  ELSE (((a % 2) + (b % 2)) % 2) + (2 * Xor(a \div 2, b \div 2))

Min(a, b) == IF a <= b THEN a ELSE b

RECURSIVE SumSeq(_)
SumSeq(s) == IF s = <<>> THEN 0 ELSE Head(s) + SumSeq(Tail(s))

\* all byte strings of length n over a byte domain
BytesOf(n) == [1..n -> Byte]

\* ------------------------------------------------------------------------
\* utils/bytes.ts
\* ------------------------------------------------------------------------
toHex(buffer) == [prefix |-> "0x", digits |-> buffer]

fromHex(hex) == hex.digits

ensureHexPrefix(value) == IF value.prefix = "0x" THEN value ELSE [value EXCEPT !.prefix = "0x"]

\* ------------------------------------------------------------------------
\* @noble/secp256k1 as used by EncryptionManager
\* ------------------------------------------------------------------------
isValidPrivateKey(k) == k > 0 /\ k < CurveOrder

\* compressed encoding of the point with discrete logarithm d (d # 0)
CompressPoint(d) ==
  [format |-> IF 2 * d < CurveOrder THEN 2 ELSE 3, x |-> Min(d, CurveOrder - d)]

DecompressPoint(p) == IF p.format = 2 THEN p.x ELSE CurveOrder - p.x

isValidPoint(p) ==
  /\ p.format \in {2, 3}
  /\ p.x >= 1
  /\ 2 * p.x < CurveOrder

getPublicKey(privateKey) == CompressPoint(privateKey % CurveOrder)

getSharedSecret(privateKey, publicKey) ==
  CompressPoint((privateKey * DecompressPoint(publicKey)) % CurveOrder)

\* ------------------------------------------------------------------------
\* utils/hkdf.ts
\* ------------------------------------------------------------------------
InfoTag(info) == IF info = "basemailer-mask" THEN 0 ELSE 1

\* a toy expansion that is injective in (sharedSecret, info), as HKDF is
\* collision-free in practice
deriveKey(sharedSecret, info, length) ==
  [i \in 1..length |-> 2 * (sharedSecret + CurveOrder * (i - 1)) + InfoTag(info)]

\* ------------------------------------------------------------------------
\* node:crypto primitives
\* ------------------------------------------------------------------------
\* HMAC-SHA256 digest; flip is the XOR mask applied to the digest bytes
createHmac(macKey, data) == [alg |-> "sha256", key |-> macKey, data |-> data, flip |-> 0]

\* keystream byte of AES in counter mode: the stream is a collision-free
\* function of (key, iv)
Keystream(key, iv, i) ==
  LET material == key \o iv
  IN material[((i - 1) % Len(material)) + 1]

GcmEncrypt(key, iv, plaintext) ==
  [i \in 1..Len(plaintext) |-> Xor(plaintext[i], Keystream(key, iv, i))]

\* the GCM authentication tag over (key, iv, ciphertext)
GcmTag(key, iv, ciphertext) ==
  [alg |-> "gcm", key |-> key, iv |-> iv, data |-> ciphertext, flip |-> 0]

\* ------------------------------------------------------------------------
\* types/mail.ts: MailContent and its JSON form
\* ------------------------------------------------------------------------
Emails == <<"a@x", "b@x">>
Texts == <<"hi", "hello">>

CodeOf(list, v) == CHOOSE i \in 1..Len(list) : list[i] = v

EmailSet == {Emails[i] : i \in 1..Len(Emails)}
TextSet == {Texts[i] : i \in 1..Len(Texts)}

\* a MailContent whose optional timestamp is absent has no timestamp field
MailContent ==
  [from : EmailSet, to : EmailSet, subject : TextSet, body : TextSet]
    \cup [from : EmailSet, to : EmailSet, subject : TextSet, body : TextSet,
          timestamp : 1..MaxClock]

\* JSON.stringify of the canonical object, as bytes
JSONstringify(canonical) ==
  << CodeOf(Emails, canonical.from), CodeOf(Emails, canonical.to),
     CodeOf(Texts, canonical.subject), CodeOf(Texts, canonical.body),
     canonical.timestamp >>

JSONvalid(bytes) ==
  /\ Len(bytes) = 5
  /\ bytes[1] \in 1..Len(Emails)
  /\ bytes[2] \in 1..Len(Emails)
  /\ bytes[3] \in 1..Len(Texts)
  /\ bytes[4] \in 1..Len(Texts)

JSONparse(bytes) ==
  [from |-> Emails[bytes[1]], to |-> Emails[bytes[2]],
   subject |-> Texts[bytes[3]], body |-> Texts[bytes[4]], timestamp |-> bytes[5]]

\* ------------------------------------------------------------------------
\* encryption/EncryptionManager.ts
\* ------------------------------------------------------------------------
EngineVersion == "1.0"

Ok(v) == [status |-> "ok", value |-> v]
Err(e) == [status |-> "error", error |-> e]
None == [status |-> "none"]

MacMismatch == "encrypted key MAC mismatch"
AuthFailed == "Unsupported state or unable to authenticate data"
BadPrivateKey == "invalid private key"
BadPublicKey == "invalid public key"
normalizePublicKey(hex) == fromHex(ensureHexPrefix(hex))

normalizePrivateKey(hex) == fromHex(ensureHexPrefix(hex))

\* getSharedSecret(privateKey, publicKey, true).slice(1): the x coordinate
computeSharedSecret(privateKey, publicKey) ==
  IF ~isValidPrivateKey(privateKey) THEN Err(BadPrivateKey)
  ELSE IF ~isValidPoint(publicKey) THEN Err(BadPublicKey)
  ELSE Ok(getSharedSecret(privateKey, publicKey).x)

\* draws: the successive results of randomBytes(32); the loop stops at the
\* first draw that is not all-zero
\* generatePrivateKey returning its first draw without looking at it
generatePrivateKeyFirst(draws) == Head(draws)

\* generatePrivateKey returning one key for every call
generatePrivateKeyStatic(draws) == 1

RECURSIVE generatePrivateKey(_)
generatePrivateKey(draws) ==
  IF Len(draws) > 1 /\ Head(draws) = 0 THEN generatePrivateKey(Tail(draws))
  ELSE Head(draws)

XorMask(key, maskKey) ==
  [i \in 1..Len(key) |-> Xor(key[i], maskKey[((i - 1) % Len(maskKey)) + 1])]

wrapSymmetricKey(key, recipientPublicKey, draws) ==
  LET ephemeralPrivateKey == generatePrivateKey(draws)
  IN IF ~isValidPrivateKey(ephemeralPrivateKey) THEN Err(BadPrivateKey)
     ELSE
       LET ephemeralPublicKey == getPublicKey(ephemeralPrivateKey)
           sharedSecret == computeSharedSecret(ephemeralPrivateKey, recipientPublicKey)
       IN IF sharedSecret.status = "error" THEN sharedSecret
          ELSE
            LET maskKey == deriveKey(sharedSecret.value, "basemailer-mask", KeyLen)
                macKey == deriveKey(sharedSecret.value, "basemailer-mac", KeyLen)
                encryptedKey == XorMask(key, maskKey)
                mac == createHmac(macKey, encryptedKey)
            IN Ok([encryptedKey |-> encryptedKey, mac |-> mac,
                   ephemeralPublicKey |-> ephemeralPublicKey])

encrypt(content, recipientPublicKeyHex, now, symmetricKey, iv, draws) ==
  LET timestamp == IF "timestamp" \in DOMAIN content THEN content.timestamp ELSE now
      canonical == [from |-> content.from, to |-> content.to, subject |-> content.subject,
                    body |-> content.body, timestamp |-> timestamp]
      plaintext == JSONstringify(canonical)
      ciphertext == GcmEncrypt(symmetricKey, iv, plaintext)
      authTag == GcmTag(symmetricKey, iv, ciphertext)
  IN LET recipientPublicKey == normalizePublicKey(recipientPublicKeyHex)
           wrapped == wrapSymmetricKey(symmetricKey, recipientPublicKey, draws)
     IN IF wrapped.status = "error" THEN wrapped
        ELSE Ok([version |-> EngineVersion,
                   encryptedContent |->
                     [algorithm |-> "AES-256-GCM",
                      ciphertext |-> toHex(ciphertext),
                      iv |-> toHex(iv),
                      authTag |-> toHex(authTag)],
                   encryptedKey |->
                     [algorithm |-> "ECIES-secp256k1",
                      ephemeralPublicKey |-> toHex(wrapped.value.ephemeralPublicKey),
                      ciphertext |-> toHex(wrapped.value.encryptedKey),
                      mac |-> toHex(wrapped.value.mac)],
                   metadata |->
                     [version |-> EngineVersion,
                      timestamp |-> timestamp,
                      size |-> Len(ciphertext) + Len(wrapped.value.encryptedKey),
                      contentType |-> "mail"]])

\* unwrapSymmetricKey unmasking with the mac key instead of the mask key
unwrapSymmetricKeyMacMask(pkg, recipientPrivateKeyHex) ==
  LET ephemeralPublicKey == normalizePublicKey(pkg.encryptedKey.ephemeralPublicKey)
      recipientPrivateKey == normalizePrivateKey(recipientPrivateKeyHex)
      sharedSecret == computeSharedSecret(recipientPrivateKey, ephemeralPublicKey)
  IN IF sharedSecret.status = "error" THEN sharedSecret
     ELSE
       LET macKey == deriveKey(sharedSecret.value, "basemailer-mac", KeyLen)
           encryptedKey == fromHex(pkg.encryptedKey.ciphertext)
           expectedMac == createHmac(macKey, encryptedKey)
           providedMac == fromHex(pkg.encryptedKey.mac)
       IN IF expectedMac # providedMac THEN Err(MacMismatch)
          ELSE Ok(XorMask(encryptedKey, macKey))

\* unwrapSymmetricKey without the MAC comparison
unwrapSymmetricKeyUnchecked(pkg, recipientPrivateKeyHex) ==
  LET ephemeralPublicKey == normalizePublicKey(pkg.encryptedKey.ephemeralPublicKey)
      recipientPrivateKey == normalizePrivateKey(recipientPrivateKeyHex)
      sharedSecret == computeSharedSecret(recipientPrivateKey, ephemeralPublicKey)
  IN IF sharedSecret.status = "error" THEN sharedSecret
     ELSE
       LET maskKey == deriveKey(sharedSecret.value, "basemailer-mask", KeyLen)
           encryptedKey == fromHex(pkg.encryptedKey.ciphertext)
       IN Ok(XorMask(encryptedKey, maskKey))

unwrapSymmetricKey(pkg, recipientPrivateKeyHex) ==
  LET ephemeralPublicKey == normalizePublicKey(pkg.encryptedKey.ephemeralPublicKey)
      recipientPrivateKey == normalizePrivateKey(recipientPrivateKeyHex)
      sharedSecret == computeSharedSecret(recipientPrivateKey, ephemeralPublicKey)
  IN IF sharedSecret.status = "error" THEN sharedSecret
     ELSE
       LET maskKey == deriveKey(sharedSecret.value, "basemailer-mask", KeyLen)
           macKey == deriveKey(sharedSecret.value, "basemailer-mac", KeyLen)
           encryptedKey == fromHex(pkg.encryptedKey.ciphertext)
           expectedMac == createHmac(macKey, encryptedKey)
           providedMac == fromHex(pkg.encryptedKey.mac)
       IN IF expectedMac # providedMac THEN Err(MacMismatch)
          ELSE Ok(XorMask(encryptedKey, maskKey))

\* createDecipheriv / setAuthTag / update / final
GcmDecrypt(symmetricKey, iv, ciphertext, authTag) ==
  IF authTag # GcmTag(symmetricKey, iv, ciphertext) THEN Err(AuthFailed)
  ELSE Ok(GcmEncrypt(symmetricKey, iv, ciphertext))

decrypt(pkg, recipientPrivateKeyHex) ==
  LET symmetricKey == unwrapSymmetricKey(pkg, recipientPrivateKeyHex)
  IN IF symmetricKey.status = "error" THEN symmetricKey
     ELSE
       LET iv == fromHex(pkg.encryptedContent.iv)
           ciphertext == fromHex(pkg.encryptedContent.ciphertext)
           authTag == fromHex(pkg.encryptedContent.authTag)
           decrypted == GcmDecrypt(symmetricKey.value, iv, ciphertext, authTag)
       IN IF decrypted.status = "error" THEN decrypted
          ELSE IF ~JSONvalid(decrypted.value) THEN Err("Unexpected token in JSON")
          ELSE Ok(JSONparse(decrypted.value))


\* unwrapSymmetricKey unmasking the key before it compares the MACs
unwrapSymmetricKeyStepsEager(pkg, recipientPrivateKeyHex) ==
  LET ephemeralPublicKey == normalizePublicKey(pkg.encryptedKey.ephemeralPublicKey)
      recipientPrivateKey == normalizePrivateKey(recipientPrivateKeyHex)
      sharedSecret == computeSharedSecret(recipientPrivateKey, ephemeralPublicKey)
  IN IF sharedSecret.status = "error" THEN <<"computeSharedSecret">>
     ELSE <<"computeSharedSecret", "deriveKey", "deriveKey", "unmask", "createHmac", "equals">>

\* the operations unwrapSymmetricKey executes, in order
unwrapSymmetricKeySteps(pkg, recipientPrivateKeyHex) ==
  LET ephemeralPublicKey == normalizePublicKey(pkg.encryptedKey.ephemeralPublicKey)
      recipientPrivateKey == normalizePrivateKey(recipientPrivateKeyHex)
      sharedSecret == computeSharedSecret(recipientPrivateKey, ephemeralPublicKey)
  IN IF sharedSecret.status = "error" THEN <<"computeSharedSecret">>
     ELSE
       LET macKey == deriveKey(sharedSecret.value, "basemailer-mac", KeyLen)
           encryptedKey == fromHex(pkg.encryptedKey.ciphertext)
           expectedMac == createHmac(macKey, encryptedKey)
           providedMac == fromHex(pkg.encryptedKey.mac)
       IN <<"computeSharedSecret", "deriveKey", "deriveKey", "createHmac", "equals">>
            \o (IF expectedMac # providedMac THEN <<>> ELSE <<"unmask">>)

\* the operations decrypt executes, in order
decryptCalls(pkg, recipientPrivateKeyHex) ==
  LET symmetricKey == unwrapSymmetricKey(pkg, recipientPrivateKeyHex)
      unwrap == unwrapSymmetricKeySteps(pkg, recipientPrivateKeyHex)
  IN IF symmetricKey.status = "error" THEN unwrap
     ELSE
       LET iv == fromHex(pkg.encryptedContent.iv)
           ciphertext == fromHex(pkg.encryptedContent.ciphertext)
           authTag == fromHex(pkg.encryptedContent.authTag)
           decrypted == GcmDecrypt(symmetricKey.value, iv, ciphertext, authTag)
       IN unwrap \o <<"createDecipheriv", "setAuthTag", "final">>
            \o (IF decrypted.status = "error" THEN <<>> ELSE <<"JSON.parse">>)
\* ------------------------------------------------------------------------
\* Bounds of the dispatch and ingestion model
\* ------------------------------------------------------------------------
\* largest number of mail records the ledger accepts
MaxMails == 2
\* number of sendMail calls in progress at once on one client
MaxWriters == 3
\* largest number of logs in a receipt, and of mail ids in them
MaxLogs == 4

\* ------------------------------------------------------------------------
\* contracts/abi.ts: the registry and the mailer contract (the ledger)
\* ------------------------------------------------------------------------
ZeroAddress == "0x0000000000000000000000000000000000000000"

\* BaseMailerRegistry.resolveEmail
resolveEmail(email) ==
  CASE email = "a@x" -> "0xA"
    [] email = "b@x" -> "0xB"
    [] OTHER -> ZeroAddress

\* topic hash of the MailSent event, and of any other event
MailSentTopic == "MailSent(uint256,string,string,bytes32,uint256)"
\* storage handles: those the local parties upload, and one of another party
Cids == {"Qm1", "Qm2"}
ForeignCids == {"QmF"}

\* ------------------------------------------------------------------------
\* utils/bytes.ts: cidToBytes32
\* ------------------------------------------------------------------------
keccak256(text) == "keccak256(" \o text \o ")"

\* cidToBytes32 hashing only the multihash prefix of the handle
cidToBytes32Prefix(cid) == keccak256(SubSeq(cid, 1, 2))

cidToBytes32(cid) == keccak256(cid)

\* ------------------------------------------------------------------------
\* utils/cid-store.ts: InMemoryCidStore
\* ------------------------------------------------------------------------
EmptyStore == [k \in {} |-> ""]

\* set writing the entry into a new map instead of the shared one
CidStoreSetAlone(store, key, cid) == [k \in {key} |-> cid]

CidStoreSet(store, key, cid) ==
  [k \in (DOMAIN store) \cup {key} |-> IF k = key THEN cid ELSE store[k]]

CidStoreGet(store, key) == IF key \in DOMAIN store THEN Ok(store[key]) ELSE None

\* ------------------------------------------------------------------------
\* service/MailStore.ts: InMemoryMailStore, a Map in insertion order
\* ------------------------------------------------------------------------
\* Map.set appending an entry even when the key is present
saveAppend(mails, mail) == Append(mails, mail)

save(mails, mail) ==
  IF \E i \in 1..Len(mails) : mails[i].mailId = mail.mailId
  THEN [i \in 1..Len(mails) |-> IF mails[i].mailId = mail.mailId THEN mail ELSE mails[i]]
  ELSE Append(mails, mail)

get(mails, mailId) ==
  IF \E i \in 1..Len(mails) : mails[i].mailId = mailId
  THEN Ok(mails[CHOOSE i \in 1..Len(mails) : mails[i].mailId = mailId])
  ELSE None

getInbox(mails, email) ==
  LET isRecipient(mail) == mail.recipientEmail = email
  IN SelectSeq(mails, isRecipient)

getSentbox(mails, email) ==
  LET isSender(mail) == mail.senderEmail = email
  IN SelectSeq(mails, isSender)

\* ------------------------------------------------------------------------
\* service/EmailService.ts: persistEvent, extractMailId
\* ------------------------------------------------------------------------
\* persistEvent indexing the record under its commitment instead of its mail id
persistEventByCommitment(mails, cidStore, mailId, contentCID, senderEmail, recipientEmail, timestamp, blockNumber, txHash) ==
  IF mailId = "" \/ contentCID = "" THEN mails
  ELSE
    LET found == CidStoreGet(cidStore, contentCID)
        cid == IF found.status = "ok" THEN found.value ELSE contentCID
    IN save(mails, [mailId |-> contentCID, cid |-> cid, contentHash |-> contentCID,
                    senderEmail |-> senderEmail, recipientEmail |-> recipientEmail,
                    timestamp |-> timestamp, blockNumber |-> blockNumber,
                    txHash |-> txHash])

\* persistEvent without the guard on the mail id and the commitment
persistEventPartial(mails, cidStore, mailId, contentCID, senderEmail, recipientEmail, timestamp, blockNumber, txHash) ==
  LET found == CidStoreGet(cidStore, contentCID)
      cid == IF found.status = "ok" THEN found.value ELSE contentCID
  IN save(mails, [mailId |-> mailId, cid |-> cid, contentHash |-> contentCID,
                  senderEmail |-> senderEmail, recipientEmail |-> recipientEmail,
                  timestamp |-> timestamp, blockNumber |-> blockNumber,
                  txHash |-> txHash])

\* the mail store after persistEvent(mailId, contentCID, ...); an absent
\* mailId or contentCID is the empty string
persistEvent(mails, cidStore, mailId, contentCID, senderEmail, recipientEmail, timestamp, blockNumber, txHash) ==
  IF mailId = "" \/ contentCID = "" THEN mails
  ELSE
    LET found == CidStoreGet(cidStore, contentCID)
        cid == IF found.status = "ok" THEN found.value ELSE contentCID
    IN save(mails, [mailId |-> mailId, cid |-> cid, contentHash |-> contentCID,
                    senderEmail |-> senderEmail, recipientEmail |-> recipientEmail,
                    timestamp |-> timestamp, blockNumber |-> blockNumber,
                    txHash |-> txHash])

\* persistEvent applied to a decoded MailSent event
persistLog(mails, cidStore, event) ==
  persistEvent(mails, cidStore, ToString(event.mailId), event.contentCID,
               event.senderEmail, event.recipientEmail, event.timestamp,
               event.blockNumber, event.transactionHash)

\* extractMailId going on to the last log with the MailSent topic
extractMailIdLast(logs) ==
  LET matching == {i \in 1..Len(logs) : logs[i].topic = MailSentTopic}
  IN IF matching = {} THEN None
     ELSE Ok(ToString(logs[CHOOSE i \in matching : \A j \in matching : j <= i].mailId))

RECURSIVE extractMailId(_)
extractMailId(logs) ==
  IF logs = <<>> THEN None
  ELSE IF Head(logs).topic = MailSentTopic THEN Ok(ToString(Head(logs).mailId))
  ELSE extractMailId(Tail(logs))

\* ------------------------------------------------------------------------
\* client/BaseMailerClient.ts: extractMailIdFromReceipt
\* ------------------------------------------------------------------------
RECURSIVE extractMailIdFromReceipt(_)
extractMailIdFromReceipt(logs) ==
  IF logs = <<>> THEN None
  ELSE IF Head(logs).topic = MailSentTopic THEN Ok(ToString(Head(logs).mailId))
  ELSE extractMailIdFromReceipt(Tail(logs))

\* mailId ?? '0'
OrZero(mailId) == IF mailId.status = "ok" THEN mailId.value ELSE "0"

\* ------------------------------------------------------------------------
\* zkproof: the proof object is written by the public signals it proves
\* ------------------------------------------------------------------------
NoProof == <<>>

\* the proof inputs BaseMailerClient.sendMail builds
proofInputs(from, to, cid) ==
  [senderEmail |-> from, recipientEmail |-> to,
   contentHash |-> keccak256("envelope " \o cid)]

\* ProofGenerator.generateProof: groth16.fullProve over the inputs
generateProof(inputs) == <<inputs.senderEmail, inputs.recipientEmail, inputs.contentHash>>

\* the public signals EmailService.verifyProof lays out
publicSignals(senderAddress, senderEmail, contentCID) ==
  <<senderAddress, contentCID, keccak256(senderEmail)>>

\* groth16.verify
groth16verify(signals, proof) == proof = signals

verifyProof(hasVerificationKey, encodedProof, senderAddress, senderEmail, contentCID) ==
  IF ~hasVerificationKey THEN TRUE
  ELSE groth16verify(publicSignals(senderAddress, senderEmail, contentCID), encodedProof)


\* ------------------------------------------------------------------------
\* NameBasedMailerABI view functions: the tuples carry no mail id
\* ------------------------------------------------------------------------
MailTuple(mail) ==
  [contentCID |-> mail.contentCID, senderEmail |-> mail.senderEmail,
   recipientEmail |-> mail.recipientEmail, timestamp |-> mail.timestamp,
   verified |-> mail.verified]

mailerGetInbox(ledger, email) ==
  LET received(mail) == mail.recipientEmail = email
      selected == SelectSeq(ledger, received)
  IN [i \in 1..Len(selected) |-> MailTuple(selected[i])]

mailerGetSentbox(ledger, email) ==
  LET sent(mail) == mail.senderEmail = email
      selected == SelectSeq(ledger, sent)
  IN [i \in 1..Len(selected) |-> MailTuple(selected[i])]

mailerGetMail(ledger, mailId) == MailTuple(ledger[mailId])

\* record.name, undefined when the record has no such field
FieldOf(record, name) == IF name \in DOMAIN record THEN Ok(record[name]) ELSE None

\* BaseMailerClient.normalizeMailRecords: record.mailId ?? index
normalizeMailRecords(records) ==
  [i \in 1..Len(records) |->
     [mailId |-> IF FieldOf(records[i], "mailId").status = "ok" THEN records[i].mailId
                 ELSE i - 1,
      contentCID |-> records[i].contentCID,
      senderEmail |-> records[i].senderEmail,
      recipientEmail |-> records[i].recipientEmail,
      timestamp |-> records[i].timestamp,
      verified |-> records[i].verified]]
\* ------------------------------------------------------------------------
\* State
\* ------------------------------------------------------------------------
VARIABLES
  \* the encryption engine under test
  content,              \* the MailContent handed to encrypt
  recipientPrivateKey,  \* the recipient's secp256k1 private key
  encrypted,            \* result of EncryptionManager.encrypt
  pkg,                  \* the envelope handed to decrypt
  decryptKey,           \* the private key handed to decrypt
  decrypted,            \* result of EncryptionManager.decrypt
  decryptSteps,         \* the operations that decrypt call executed, in order
  envelopes,            \* results of successive encrypt calls on one content
  entropy,              \* the values randomBytes has returned so far
  \* the ledger (mailer contract) and its node
  ledgerMails,          \* the mail records, in id order
  eventLog,             \* the MailSent events emitted, in block order
  head,                 \* provider.getBlockNumber()
  mempool,              \* transactions sent and not yet mined
  receipts,             \* receipts of the mined transactions
  txCount,              \* number of transactions sent so far
  \* content-addressed storage
  ipfsObjects,          \* handles of the stored objects
  pinned,               \* handles pinned
  \* BaseMailerClient
  client,               \* the sendMail call in progress and its outcome
  clientCidStore,       \* the client's commitment map
  \* EmailService
  mails,                \* InMemoryMailStore.mails
  serviceCidStore,      \* the service's commitment map
  verificationKey,      \* whether a verification key is loaded
  route,                \* the POST /api/send-mail request in progress
  boot,                 \* bootstrapEvents and the live MailSent listener
  \* calls observed
  persistCall,          \* the last persistEvent call and the stores before it
  retrieval,            \* the BaseMailerClient.retrieveMail call in progress
  boxes,                \* result of the last BaseMailerClient.getInbox / getSentbox
  dispatches,           \* concurrent sendMail calls at their commit step
  generated,            \* generatePrivateKey calls: the draws and the key returned
  extraction            \* the logs of a receipt and the mail ids read from them

cryptoVars ==
  <<content, recipientPrivateKey, encrypted, pkg, decryptKey, decrypted, decryptSteps,
    envelopes, entropy>>

ledgerVars == <<ledgerMails, eventLog, head, mempool, receipts, txCount>>

storageVars == <<ipfsObjects, pinned>>

clientVars == <<client, clientCidStore>>

serviceVars == <<mails, serviceCidStore, verificationKey, route, boot>>

moreVars == <<dispatches, generated, extraction>>

callVars == <<persistCall, retrieval, boxes, moreVars>>

systemVars == <<ledgerVars, storageVars, clientVars, serviceVars, callVars>>

vars == <<cryptoVars, systemVars>>

\* retryOf: the step at which the previous call with the same content failed
\* and the handle that call had stored
IdleClient ==
  [pc |-> "idle", from |-> "", to |-> "", cid |-> "", proof |-> NoProof,
   txHash |-> 0, steps |-> <<>>, failedAt |-> "", error |-> "",
   retryOf |-> [failedAt |-> "", cid |-> ""],
   result |-> [mailId |-> "", cid |-> "", txHash |-> 0]]

IdleRetrieval ==
  [pc |-> "idle", mailId |-> 0, backend |-> FALSE, normalizedId |-> 0, cidKey |-> "",
   cid |-> "", answer |-> None, error |-> ""]

NoResponse == [status |-> 0, error |-> "", mailId |-> "", txHash |-> 0, timestamp |-> 0]

IdleRoute ==
  [pc |-> "idle", proof |-> NoProof, cid |-> "", senderEmail |-> "", recipientEmail |-> "",
   owner |-> "", txHash |-> 0, response |-> NoResponse]

NoEntropy == [symmetricKey |-> {}, iv |-> {}, ephemeralPrivateKey |-> {}]

CryptoIdle ==
  /\ content = [from |-> "a@x", to |-> "b@x", subject |-> "hi", body |-> "hello"]
  /\ recipientPrivateKey = 1
  /\ encrypted = None
  /\ pkg = None
  /\ decryptKey = 0
  /\ decrypted = None
  /\ decryptSteps = <<>>
  /\ envelopes = <<>>
  /\ entropy = NoEntropy

\* the commitment maps a service is constructed with: a new InMemoryCidStore,
\* or options.cidStore holding the handles of earlier mails
InjectedCidStores ==
  {EmptyStore} \cup {CidStoreSet(EmptyStore, cidToBytes32(cid), cid) : cid \in ForeignCids}

\* the state after construction of a client and a service with their
\* commitment maps
Constructed(clientStore, cidStore) ==
  /\ ledgerMails = <<>>
  /\ eventLog = <<>>
  /\ head = 0
  /\ mempool = {}
  /\ receipts = {}
  /\ txCount = 0
  /\ ipfsObjects = {}
  /\ pinned = {}
  /\ client = IdleClient
  /\ clientCidStore = clientStore
  /\ mails = <<>>
  /\ serviceCidStore = cidStore
  /\ verificationKey = FALSE
  /\ route = IdleRoute
  /\ boot = [pc |-> "stopped", startBlock |-> 0, current |-> 0, queue |-> <<>>, liveFrom |-> 0, livePos |-> 0]
  /\ persistCall = None
  /\ dispatches = [w \in 1..MaxWriters |-> [pc |-> "idle", cid |-> ""]]
  /\ generated = {}
  /\ extraction = None
  /\ retrieval = IdleRetrieval
  /\ boxes = None

\* ------------------------------------------------------------------------
\* The encryption engine used end to end (tests/encryption.test.ts)
\* ------------------------------------------------------------------------
InitCrypto ==
  /\ content \in MailContent
  /\ recipientPrivateKey \in ValidPrivateKeys
  /\ encrypted = None
  /\ pkg = None
  /\ decryptKey = 0
  /\ decrypted = None
  /\ decryptSteps = <<>>
  /\ envelopes = <<>>
  /\ entropy = NoEntropy
  /\ Constructed(EmptyStore, EmptyStore)

\* randomBytes(32) draws of generatePrivateKey: a first draw, or an all-zero
\* draw followed by a second one
KeyDraws == {<<k>> : k \in PrivateKeys \ {0}} \cup {<<0, k>> : k \in PrivateKeys \ {0}}

Encrypt ==
  /\ encrypted = None
  /\ \E now \in 1..MaxClock, symmetricKey \in BytesOf(KeyLen), iv \in BytesOf(IvLen),
        draws \in KeyDraws :
       encrypted' = encrypt(content, toHex(getPublicKey(recipientPrivateKey)), now,
                            symmetricKey, iv, draws)
  /\ UNCHANGED <<content, recipientPrivateKey, pkg, decryptKey, decrypted, decryptSteps,
                 envelopes, entropy, systemVars>>

\* the envelope reaches the recipient as it was produced
Deliver ==
  /\ encrypted.status = "ok"
  /\ pkg = None
  /\ pkg' = encrypted
  /\ UNCHANGED <<content, recipientPrivateKey, encrypted, decryptKey, decrypted, decryptSteps,
                 envelopes, entropy, systemVars>>

\* the envelope reaches the recipient with one bit of one field flipped in
\* transit
Tamper ==
  LET FlipHexByte(hex, i) == toHex([fromHex(hex) EXCEPT ![i] = Xor(@, 1)])
      FlipDigest(hex) == toHex([fromHex(hex) EXCEPT !.flip = Xor(@, 1)])
      Tampered(env, field, i) ==
        CASE field = "ciphertext" ->
               [env EXCEPT !.encryptedContent.ciphertext = FlipHexByte(@, i)]
          [] field = "iv" ->
               [env EXCEPT !.encryptedContent.iv = FlipHexByte(@, ((i - 1) % IvLen) + 1)]
          [] field = "authTag" ->
               [env EXCEPT !.encryptedContent.authTag = FlipDigest(@)]
          [] field = "encryptedKey" ->
               [env EXCEPT !.encryptedKey.ciphertext = FlipHexByte(@, ((i - 1) % KeyLen) + 1)]
          [] field = "mac" ->
               [env EXCEPT !.encryptedKey.mac = FlipDigest(@)]
  IN
  /\ encrypted.status = "ok"
  /\ pkg = None
  /\ \E field \in {"ciphertext", "iv", "authTag", "encryptedKey", "mac"}, i \in 1..KeyLen :
       pkg' = Ok(Tampered(encrypted.value, field, i))
  /\ UNCHANGED <<content, recipientPrivateKey, encrypted, decryptKey, decrypted, decryptSteps,
                 envelopes, entropy, systemVars>>

\* the envelope reaches the recipient with a version the engine does not know
Reversion ==
  /\ encrypted.status = "ok"
  /\ pkg = None
  /\ pkg' = Ok([encrypted.value EXCEPT !.version = "2.0"])
  /\ UNCHANGED <<content, recipientPrivateKey, encrypted, decryptKey, decrypted, decryptSteps,
                 envelopes, entropy, systemVars>>

Decrypt ==
  /\ pkg.status = "ok"
  /\ decrypted = None
  /\ \E key \in PrivateKeys :
       /\ decryptKey' = key
       /\ decrypted' = decrypt(pkg.value, toHex(key))
       /\ decryptSteps' = decryptSteps \o decryptCalls(pkg.value, toHex(key))
  /\ UNCHANGED <<content, recipientPrivateKey, encrypted, pkg, envelopes, entropy, systemVars>>

SpecCrypto == InitCrypto /\ [][Encrypt \/ Deliver \/ Tamper \/ Reversion \/ Decrypt]_vars


\* ------------------------------------------------------------------------
\* Successive encrypt calls on the same content for the same recipient
\* ------------------------------------------------------------------------
InitFresh ==
  /\ content \in {c \in MailContent : c.from = "a@x" /\ c.to = "b@x" /\ c.subject = "hi"
                                         /\ c.body = "hello"}
  /\ recipientPrivateKey = 1
  /\ encrypted = None
  /\ pkg = None
  /\ decryptKey = 0
  /\ decrypted = None
  /\ decryptSteps = <<>>
  /\ envelopes = <<>>
  /\ entropy = NoEntropy
  /\ Constructed(EmptyStore, EmptyStore)

\* one more encrypt call on the content. drawn holds the values randomBytes
\* returned to the draws of the call; randomBytes is a cryptographic
\* generator: no value it returned is returned again (Fresh)
EncryptAgain ==
  /\ Len(envelopes) < 2
  /\ \E now \in 1..MaxClock, symmetricKey \in BytesOf(KeyLen), iv \in BytesOf(IvLen),
        draws \in KeyDraws :
       LET drawn == [symmetricKey |-> {symmetricKey}, iv |-> {iv},
                     ephemeralPrivateKey |-> {draws[i] : i \in 1..Len(draws)}]
           Fresh ==
             /\ drawn.symmetricKey \cap entropy.symmetricKey = {}
             /\ drawn.iv \cap entropy.iv = {}
             /\ drawn.ephemeralPrivateKey \cap entropy.ephemeralPrivateKey = {}
           result == encrypt(content, toHex(getPublicKey(recipientPrivateKey)), now,
                             symmetricKey, iv, draws)
       IN /\ Fresh
          /\ result.status = "ok"
          /\ envelopes' = Append(envelopes, result.value)
          /\ entropy' = [symmetricKey |-> entropy.symmetricKey \cup drawn.symmetricKey,
                         iv |-> entropy.iv \cup drawn.iv,
                         ephemeralPrivateKey |->
                           entropy.ephemeralPrivateKey \cup drawn.ephemeralPrivateKey]
  /\ UNCHANGED <<content, recipientPrivateKey, encrypted, pkg, decryptKey, decrypted,
                 decryptSteps, systemVars>>

SpecFresh == InitFresh /\ [][EncryptAgain]_vars

\* ------------------------------------------------------------------------
\* wrapSymmetricKey calls and the ephemeral keys generated for them
\* ------------------------------------------------------------------------
\* wrapSymmetricKey is called: generatePrivateKey consumes the draws and the
\* key it returns is used for the ephemeral public key
GenerateKey ==
  /\ \E draws \in KeyDraws, symmetricKey \in BytesOf(KeyLen) :
       LET wrapped == wrapSymmetricKey(symmetricKey, getPublicKey(recipientPrivateKey), draws)
       IN generated' = generated \cup
                         {[draws |-> draws, key |-> generatePrivateKey(draws),
                           ephemeralPublicKey |->
                             IF wrapped.status = "ok"
                             THEN Ok(wrapped.value.ephemeralPublicKey) ELSE wrapped]}
  /\ UNCHANGED <<cryptoVars, ledgerVars, storageVars, clientVars, serviceVars, persistCall,
                 retrieval, boxes, dispatches, extraction>>

SpecGenerate == InitFresh /\ [][GenerateKey]_vars

\* ------------------------------------------------------------------------
\* BaseMailerClient.getInbox / getSentbox
\* ------------------------------------------------------------------------
\* the client reads a mailbox from the ledger and normalizes its records
CGetBox ==
  /\ \E kind \in {"inbox", "sentbox"}, email \in EmailSet :
       LET records == IF kind = "inbox" THEN mailerGetInbox(ledgerMails, email)
                      ELSE mailerGetSentbox(ledgerMails, email)
       IN /\ records # <<>>
          /\ boxes' = Ok([kind |-> kind, email |-> email,
                          records |-> normalizeMailRecords(records)])
  /\ UNCHANGED <<moreVars, persistCall, retrieval, ledgerVars, storageVars, clientVars, serviceVars,
                 cryptoVars>>

\* ------------------------------------------------------------------------
\* BaseMailerClient.retrieveMail, one action per awaited step; the backend
\* is the service's GET /api/mail/:mailId
\* ------------------------------------------------------------------------
CidNotFound == "CID not found locally. Provide cidStore or backend to resolve."
\* mailer.getMail(mailId) and normalizeMailRecords([mail])[0]
CRetrieveMail ==
  /\ retrieval.pc \in {"idle", "done", "failed"}
  /\ \E mailId \in 1..Len(ledgerMails), backend \in BOOLEAN :
       LET normalized == normalizeMailRecords(<<mailerGetMail(ledgerMails, mailId)>>)[1]
       IN retrieval' = [IdleRetrieval EXCEPT !.pc = "local", !.mailId = mailId,
                                             !.backend = backend,
                                             !.normalizedId = normalized.mailId,
                                             !.cidKey = normalized.contentCID]
  /\ UNCHANGED <<moreVars, persistCall, boxes, ledgerVars, storageVars, clientVars, serviceVars,
                 cryptoVars>>

\* cidStore.get(cidKey)
CLocal ==
  /\ retrieval.pc = "local"
  /\ LET found == CidStoreGet(clientCidStore, retrieval.cidKey)
     IN retrieval' =
          IF found.status = "ok" THEN [retrieval EXCEPT !.pc = "fetch", !.cid = found.value]
          ELSE IF retrieval.backend THEN [retrieval EXCEPT !.pc = "backend"]
          ELSE [retrieval EXCEPT !.pc = "failed", !.error = CidNotFound]
  /\ UNCHANGED <<moreVars, persistCall, boxes, ledgerVars, storageVars, clientVars, serviceVars,
                 cryptoVars>>

\* backend.getMail(mailId): the service answers { mail } from its index, or
\* 404; the client reads mail.contentCID and remembers it
CBackend ==
  /\ retrieval.pc = "backend"
  /\ LET answer == get(mails, ToString(retrieval.mailId))
         cid == IF answer.status = "ok" THEN FieldOf(answer.value, "contentCID") ELSE None
     IN /\ retrieval' =
             IF answer.status # "ok"
             THEN [retrieval EXCEPT !.pc = "failed", !.answer = answer,
                                    !.error = "Backend request failed (404)"]
             ELSE IF cid.status = "ok"
             THEN [retrieval EXCEPT !.pc = "fetch", !.answer = answer, !.cid = cid.value]
             ELSE [retrieval EXCEPT !.pc = "failed", !.answer = answer,
                                    !.error = CidNotFound]
        /\ clientCidStore' =
             IF cid.status = "ok"
             THEN CidStoreSet(clientCidStore, retrieval.cidKey, cid.value)
             ELSE clientCidStore
  /\ UNCHANGED <<moreVars, client, persistCall, boxes, ledgerVars, storageVars, serviceVars, cryptoVars>>

\* storage.retrieve(cid) and encryption.decrypt
CFetch ==
  /\ retrieval.pc = "fetch"
  /\ retrieval' = [retrieval EXCEPT !.pc = "done"]
  /\ UNCHANGED <<moreVars, persistCall, boxes, ledgerVars, storageVars, clientVars, serviceVars,
                 cryptoVars>>

RetrieveNext == CRetrieveMail \/ CLocal \/ CBackend \/ CFetch

\* ------------------------------------------------------------------------
\* The ledger: mailer.sendMail transactions and the MailSent events
\* ------------------------------------------------------------------------
MailSentLog(id, tx, block) ==
  [topic |-> MailSentTopic, mailId |-> id, recipientEmail |-> keccak256(tx.recipientEmail),
   senderEmail |-> keccak256(tx.senderEmail), contentCID |-> tx.contentCID, timestamp |-> block,
   blockNumber |-> block, transactionHash |-> tx.hash]

\* the ledger state after tx is mined into block head + 1; the receipt is
\* kept for the caller that waits for it. The logs of the receipt are the
\* MailSent event after a log of another signature, or no log with the
\* MailSent signature of the SDK's ABI.
Mined(tx, shape) ==
  LET id == Len(ledgerMails) + 1
      block == head + 1
      OtherLog ==
        [topic |-> "Other(uint256)", blockNumber |-> block, transactionHash |-> tx.hash]
      ReceiptLogs ==
        CASE shape = "other+event" -> <<OtherLog, MailSentLog(id, tx, block)>>
          [] shape = "none" -> <<>>
      \* a caller is in tx.wait() for the transaction
      Awaited ==
        \/ client.pc = "wait" /\ client.txHash = tx.hash
        \/ route.pc = "wait" /\ route.txHash = tx.hash
  IN /\ ledgerMails' = Append(ledgerMails,
                              [mailId |-> id, contentCID |-> tx.contentCID,
                               senderEmail |-> tx.senderEmail,
                               recipientEmail |-> tx.recipientEmail,
                               timestamp |-> block, verified |-> TRUE, txHash |-> tx.hash,
                               signer |-> tx.signer])
     /\ eventLog' = IF shape = "none" THEN eventLog
                    ELSE Append(eventLog, MailSentLog(id, tx, block))
     /\ head' = block
     /\ receipts' = IF Awaited
                    THEN receipts \cup
                           {[hash |-> tx.hash, blockNumber |-> block, logs |-> ReceiptLogs]}
                    ELSE receipts

\* a pending transaction of the client or of the service is mined
Mine ==
  /\ \E tx \in mempool, shape \in {"other+event", "none"} :
       /\ Mined(tx, shape)
       /\ mempool' = mempool \ {tx}
  /\ UNCHANGED <<txCount, storageVars, clientVars, serviceVars, cryptoVars, callVars>>

\* another party sends a mail through the ledger
ForeignMail ==
  /\ txCount < MaxMails
  /\ \E to \in {"a@x"}, cid \in ForeignCids :
       Mined([hash |-> txCount + 1, signer |-> "other", proof |-> NoProof, contentCID |-> cidToBytes32(cid),
              senderEmail |-> "b@x", recipientEmail |-> to], "other+event")
  /\ txCount' = txCount + 1
  /\ UNCHANGED <<mempool, storageVars, clientVars, serviceVars, cryptoVars, callVars>>

ReceiptOf(hash) == CHOOSE r \in receipts : r.hash = hash

HasReceipt(hash) == \E r \in receipts : r.hash = hash

\* ------------------------------------------------------------------------
\* BaseMailerClient.sendMail, one action per awaited step
\* ------------------------------------------------------------------------
CSendMail ==
  /\ client.pc \in {"idle", "done", "failed"}
  /\ \E from \in {"a@x", ""}, to \in {"a@x", "b@x", "u@x"} :
       client' = IF from = ""
                 THEN [IdleClient EXCEPT !.pc = "failed", !.to = to,
                                         !.error = "from email is required"]
                 ELSE [IdleClient EXCEPT !.pc = "resolve", !.from = from, !.to = to,
                                         !.steps = <<"resolve">>,
                                         !.retryOf =
                                           IF client.pc = "failed" /\ client.from = from
                                                /\ client.to = to
                                           THEN [failedAt |-> client.failedAt,
                                                 cid |-> client.cid]
                                           ELSE @]
  /\ UNCHANGED <<clientCidStore, ledgerVars, storageVars, serviceVars, cryptoVars, callVars>>

\* resolveRecipient: the owner is read from the registry and handed to the
\* caller's recipientResolver, which returns a public key
CResolve ==
  /\ client.pc = "resolve"
  /\ client' = [client EXCEPT !.pc = "encrypt", !.steps = Append(@, "encrypt")]
  /\ UNCHANGED <<clientCidStore, ledgerVars, storageVars, serviceVars, cryptoVars, callVars>>

\* encryption.encrypt
CEncrypt ==
  /\ client.pc = "encrypt"
  /\ client' = [client EXCEPT !.pc = "upload", !.steps = Append(@, "upload")]
  /\ UNCHANGED <<clientCidStore, ledgerVars, storageVars, serviceVars, cryptoVars, callVars>>

\* storage.upload: the fresh envelope gets a fresh handle (pin defaults to true)
CUpload ==
  /\ client.pc = "upload"
  /\ \E cid \in Cids \ ipfsObjects :
       /\ ipfsObjects' = ipfsObjects \cup {cid}
       /\ pinned' = pinned \cup {cid}
       /\ client' = [client EXCEPT !.pc = "commit", !.cid = cid, !.steps = Append(@, "commit")]
  /\ UNCHANGED <<clientCidStore, ledgerVars, serviceVars, cryptoVars, callVars>>

\* cidStore.set(cidToBytes32(cid), cid)
CCommit ==
  /\ client.pc = "commit"
  /\ clientCidStore' = CidStoreSet(clientCidStore, cidToBytes32(client.cid), client.cid)
  /\ client' = [client EXCEPT !.pc = "prove", !.steps = Append(@, "prove")]
  /\ UNCHANGED <<ledgerVars, storageVars, serviceVars, cryptoVars, callVars>>

\* proof.generateProof(proofInputs)
CProve ==
  /\ client.pc = "prove"
  /\ client' = [client EXCEPT !.pc = "submit", !.steps = Append(@, "submit"),
                              !.proof = generateProof(proofInputs(client.from, client.to,
                                                                  client.cid))]
  /\ UNCHANGED <<clientCidStore, ledgerVars, storageVars, serviceVars, cryptoVars, callVars>>

\* mailer.sendMail(proof, contentCID, from, to): the transaction is sent
CSubmit ==
  /\ client.pc = "submit"
  /\ txCount < MaxMails
  /\ mempool' = mempool \cup
                  {[hash |-> txCount + 1, signer |-> "client", proof |-> client.proof,
                    contentCID |-> cidToBytes32(client.cid),
                    senderEmail |-> client.from, recipientEmail |-> client.to]}
  /\ txCount' = txCount + 1
  /\ client' = [client EXCEPT !.pc = "wait", !.txHash = txCount + 1]
  /\ UNCHANGED <<ledgerMails, eventLog, head, receipts, clientCidStore, storageVars,
                 serviceVars, cryptoVars, callVars>>

\* tx.wait() returns the receipt; the mail id is read from its logs
CWait ==
  /\ client.pc = "wait"
  /\ HasReceipt(client.txHash)
  /\ LET receipt == ReceiptOf(client.txHash)
         mailId == extractMailIdFromReceipt(receipt.logs)
     IN client' = [client EXCEPT !.pc = "done",
                                 !.result = [mailId |-> OrZero(mailId), cid |-> client.cid,
                                             txHash |-> client.txHash]]
  /\ receipts' = receipts \ {ReceiptOf(client.txHash)}
  /\ UNCHANGED <<ledgerMails, eventLog, head, mempool, txCount, clientCidStore, storageVars,
                 serviceVars, cryptoVars, callVars>>

\* tx.wait() counted to the prove step
StepOfProve(pc) == IF pc = "wait" THEN "prove" ELSE pc

\* the dispatch step an awaited call of sendMail belongs to; the submission
\* ends when tx.wait() returns
StepOf(pc) == IF pc = "wait" THEN "submit" ELSE pc

\* the errors with which the awaited calls of a dispatch step reject
ErrorsOf(step) ==
  CASE step = "resolve" -> {"could not detect network", "recipientResolver is not configured; cannot derive public key"}
    [] step = "encrypt" -> {BadPublicKey}
    [] step = "upload" -> {"ipfs add failed"}
    [] step = "commit" -> {}
    [] step = "prove" -> {"groth16.fullProve failed"}
    [] step = "submit" -> {"could not detect network", "execution reverted"}

\* the awaited call of the current step rejects; sendMail throws what the
\* call threw
CFail ==
  /\ client.pc \in {"resolve", "encrypt", "upload", "prove", "submit", "wait"}
  /\ \E error \in ErrorsOf(StepOf(client.pc)) :
       client' = [client EXCEPT !.pc = "failed", !.failedAt = StepOf(client.pc),
                                !.error = error]
  /\ receipts' = {r \in receipts : r.hash # client.txHash}
  /\ UNCHANGED <<ledgerMails, eventLog, head, mempool, txCount, clientCidStore, storageVars,
                 serviceVars, cryptoVars, callVars>>

\* ------------------------------------------------------------------------
\* EmailService.bootstrapEvents and the live MailSent listener
\* ------------------------------------------------------------------------
\* start(): the verification key is loaded when its path is configured;
\* bootstrapEvents reads startBlock and current and queries the catch-up range
BootstrapQuery ==
  /\ boot.pc = "stopped"
  /\ verificationKey' \in BOOLEAN
  /\ \E startBlock \in 0..(head + 1) :
       LET inRange(event) == event.blockNumber >= startBlock /\ event.blockNumber <= head
       IN boot' = [boot EXCEPT !.pc = "catchup", !.startBlock = startBlock,
                               !.current = head,
                               !.queue = IF head >= startBlock
                                         THEN SelectSeq(eventLog, inRange) ELSE <<>>]
  /\ UNCHANGED <<mails, serviceCidStore, route, ledgerVars, storageVars,
                 clientVars, cryptoVars, callVars>>

\* one iteration of the catch-up loop
CatchupPersist ==
  /\ boot.pc = "catchup"
  /\ boot.queue # <<>>
  /\ mails' = persistLog(mails, serviceCidStore, Head(boot.queue))
  /\ boot' = [boot EXCEPT !.queue = Tail(@)]
  /\ UNCHANGED <<serviceCidStore, verificationKey, route, ledgerVars, storageVars,
                 clientVars, cryptoVars, callVars>>

\* mailer.on('MailSent', ...): the subscription takes effect from the block
\* the provider is at, or from the one after it
RegisterListener ==
  /\ boot.pc = "catchup"
  /\ boot.queue = <<>>
  /\ \E liveFrom \in {head, head + 1} :
       LET before(event) == event.blockNumber < liveFrom
       IN boot' = [boot EXCEPT !.pc = "listening", !.liveFrom = liveFrom,
                               !.livePos = Len(SelectSeq(eventLog, before))]
  /\ UNCHANGED <<mails, serviceCidStore, verificationKey, route, ledgerVars, storageVars,
                 clientVars, cryptoVars, callVars>>

\* the listener is called with the next event of the live stream
LiveDeliver ==
  /\ boot.pc = "listening"
  /\ boot.livePos < Len(eventLog)
  /\ mails' = persistLog(mails, serviceCidStore, eventLog[boot.livePos + 1])
  /\ boot' = [boot EXCEPT !.livePos = @ + 1]
  /\ UNCHANGED <<serviceCidStore, verificationKey, route, ledgerVars, storageVars,
                 clientVars, cryptoVars, callVars>>

\* ------------------------------------------------------------------------
\* EmailService POST /api/send-mail, one action per awaited step
\* ------------------------------------------------------------------------
Respond(status, error) ==
  [IdleRoute EXCEPT !.pc = "responded",
                    !.response = [NoResponse EXCEPT !.status = status, !.error = error]]

RequestProof(kind, cid, senderEmail, recipientEmail) ==
  CASE kind = "missing" -> NoProof
    [] kind = "valid" ->
         publicSignals(resolveEmail(senderEmail), senderEmail, cidToBytes32(cid))
    [] kind = "invalid" -> generateProof(proofInputs(senderEmail, recipientEmail, cid))

\* the request arrives and its fields are checked
RRequest ==
  /\ route.pc \in {"idle", "responded"}
  /\ \E kind \in {"missing", "valid", "invalid"}, cid \in Cids \cup {""}, senderEmail \in {"a@x", "u@x"},
        recipientEmail \in {"b@x"} :
       LET proof == RequestProof(kind, cid, senderEmail, recipientEmail)
           request == [IdleRoute EXCEPT !.proof = proof, !.cid = cid,
                                        !.senderEmail = senderEmail,
                                        !.recipientEmail = recipientEmail]
       IN route' = IF proof = NoProof \/ cid = "" \/ senderEmail = "" \/ recipientEmail = ""
                   THEN Respond(400, "Missing required fields")
                   ELSE [request EXCEPT !.pc = "resolve"]
  /\ UNCHANGED <<mails, serviceCidStore, verificationKey, boot, ledgerVars, storageVars,
                 clientVars, cryptoVars, callVars>>

\* registry.resolveEmail(senderEmail)
RResolve ==
  /\ route.pc = "resolve"
  /\ LET owner == resolveEmail(route.senderEmail)
     IN route' = IF owner = ZeroAddress
                 THEN Respond(400, "Sender email not registered")
                 ELSE [route EXCEPT !.pc = "commit", !.owner = owner]
  /\ UNCHANGED <<mails, serviceCidStore, verificationKey, boot, ledgerVars, storageVars,
                 clientVars, cryptoVars, callVars>>

\* cidStore.set(cidToBytes32(cid), cid)
RCommit ==
  /\ route.pc = "commit"
  /\ serviceCidStore' = CidStoreSet(serviceCidStore, cidToBytes32(route.cid), route.cid)
  /\ route' = [route EXCEPT !.pc = "verify"]
  /\ UNCHANGED <<mails, verificationKey, boot, ledgerVars, storageVars, clientVars,
                 cryptoVars, callVars>>

\* verifyProof, when a verification key is loaded
RVerify ==
  /\ route.pc = "verify"
  /\ route' = IF verifyProof(verificationKey, route.proof, route.owner, route.senderEmail,
                             cidToBytes32(route.cid))
              THEN [route EXCEPT !.pc = "pin"]
              ELSE Respond(400, "Invalid proof")
  /\ UNCHANGED <<mails, serviceCidStore, verificationKey, boot, ledgerVars, storageVars,
                 clientVars, cryptoVars, callVars>>

\* ipfs.pin(cid)
RPin ==
  /\ route.pc = "pin"
  /\ pinned' = pinned \cup {route.cid}
  /\ route' = [route EXCEPT !.pc = "submit"]
  /\ UNCHANGED <<ipfsObjects, mails, serviceCidStore, verificationKey, boot, ledgerVars,
                 clientVars, cryptoVars, callVars>>

\* mailer.sendMail(proof, contentCID, senderEmail, recipientEmail)
RSubmit ==
  /\ route.pc = "submit"
  /\ txCount < MaxMails
  /\ mempool' = mempool \cup
                  {[hash |-> txCount + 1, signer |-> "service", proof |-> route.proof,
                    contentCID |-> cidToBytes32(route.cid),
                    senderEmail |-> route.senderEmail,
                    recipientEmail |-> route.recipientEmail]}
  /\ txCount' = txCount + 1
  /\ route' = [route EXCEPT !.pc = "wait", !.txHash = txCount + 1]
  /\ UNCHANGED <<ledgerMails, eventLog, head, receipts, mails, serviceCidStore,
                 verificationKey, boot, storageVars, clientVars, cryptoVars, callVars>>

\* tx.wait() returns the receipt; the record is saved and the request answered
RWait ==
  /\ route.pc = "wait"
  /\ HasReceipt(route.txHash)
  /\ LET receipt == ReceiptOf(route.txHash)
         mailId == OrZero(extractMailId(receipt.logs))
         record == [mailId |-> mailId, cid |-> route.cid,
                    contentHash |-> cidToBytes32(route.cid),
                    senderEmail |-> route.senderEmail,
                    recipientEmail |-> route.recipientEmail,
                    timestamp |-> (1000 * head), blockNumber |-> receipt.blockNumber,
                    txHash |-> route.txHash]
     IN /\ mails' = save(mails, record)
        /\ route' = [IdleRoute EXCEPT !.pc = "responded",
                                  !.response = [status |-> 200, error |-> "",
                                                mailId |-> mailId, txHash |-> route.txHash,
                                                timestamp |-> record.timestamp]]
  /\ receipts' = receipts \ {ReceiptOf(route.txHash)}
  /\ UNCHANGED <<ledgerMails, eventLog, head, mempool, txCount, serviceCidStore,
                 verificationKey, boot, storageVars, clientVars, cryptoVars, callVars>>

\* the awaited call of the current step rejects; the catch block answers 500
RFail ==
  /\ route.pc \in {"resolve", "pin", "submit", "wait"}
  /\ route' = Respond(500, route.pc)
  /\ receipts' = {r \in receipts : r.hash # route.txHash}
  /\ UNCHANGED <<ledgerMails, eventLog, head, mempool, txCount, mails, serviceCidStore,
                 verificationKey, boot, storageVars, clientVars, cryptoVars, callVars>>

\* ------------------------------------------------------------------------
\* Specifications
\* ------------------------------------------------------------------------
Init ==
  /\ CryptoIdle
  /\ Constructed(EmptyStore, EmptyStore)

ClientNext ==
  CSendMail \/ CResolve \/ CEncrypt \/ CUpload \/ CCommit \/ CProve \/ CSubmit \/ CWait
    \/ CFail

IngestNext == BootstrapQuery \/ CatchupPersist \/ RegisterListener \/ LiveDeliver

RouteNext == RRequest \/ RResolve \/ RCommit \/ RVerify \/ RPin \/ RSubmit \/ RWait \/ RFail

Next == Mine \/ ForeignMail \/ ClientNext \/ CGetBox \/ IngestNext \/ RouteNext

\* the client, the service and the ledger
Spec == Init /\ [][Next]_vars

InitIngest ==
  /\ CryptoIdle
  /\ \E cidStore \in InjectedCidStores : Constructed(EmptyStore, cidStore)

\* the ingestion protocol alone: the service and the events of other parties
SpecIngest == InitIngest /\ [][ForeignMail \/ IngestNext]_vars

\* the client and the ledger
SpecClient == Init /\ [][Mine \/ ForeignMail \/ ClientNext \/ CGetBox]_vars


\* the service and the ledger
SpecService == Init /\ [][Mine \/ ForeignMail \/ IngestNext \/ RouteNext]_vars

InitRetrieve ==
  /\ CryptoIdle
  /\ \E clientStore \in InjectedCidStores, cidStore \in InjectedCidStores :
       Constructed(clientStore, cidStore)

\* a client retrieving mails with the service as its backend index
SpecRetrieve == InitRetrieve /\ [][ForeignMail \/ IngestNext \/ RetrieveNext]_vars

\* ------------------------------------------------------------------------
\* EmailService.persistEvent called with events that may lack fields
\* ------------------------------------------------------------------------
PersistEventCall ==
  /\ \E mailId \in {"", "1", "2"}, contentCID \in ({""} \cup {cidToBytes32(cid) : cid \in Cids \cup ForeignCids}) :
       /\ persistCall' = Ok([mailId |-> mailId, contentCID |-> contentCID, mails |-> mails,
                             cidStore |-> serviceCidStore])
       /\ mails' = persistEvent(mails, serviceCidStore, mailId, contentCID,
                                keccak256("b@x"), keccak256("a@x"), 1, 1, 1)
  /\ UNCHANGED <<moreVars, serviceCidStore, verificationKey, route, boot, retrieval, boxes, ledgerVars,
                 storageVars, clientVars, cryptoVars>>

CatchupUndecoded ==
  /\ persistCall' = Ok([mailId |-> "", contentCID |-> "", mails |-> mails,
                        cidStore |-> serviceCidStore])
  /\ LET log == [topic |-> MailSentTopic, blockNumber |-> 1, transactionHash |-> 1]
     IN mails' = IF FieldOf(log, "mailId").status # "ok" THEN mails
                 ELSE persistLog(mails, serviceCidStore, log)
  /\ UNCHANGED <<moreVars, serviceCidStore, verificationKey, route, boot, retrieval, boxes, ledgerVars,
                 storageVars, clientVars, cryptoVars>>

SpecPersist == InitIngest /\ [][PersistEventCall \/ CatchupUndecoded]_vars

\* ------------------------------------------------------------------------
\* Process death and restart of the client
\* ------------------------------------------------------------------------
\* the client process dies and is constructed again: the call in progress is
\* lost; a commitment map injected through config.cidStore is what it was,
\* the default InMemoryCidStore is new and empty
ClientCrash ==
  /\ client.pc \notin {"idle", "done", "failed"}
  /\ client' = IdleClient
  /\ clientCidStore' \in {clientCidStore, EmptyStore}
  /\ receipts' = {r \in receipts : r.hash # client.txHash}
  /\ UNCHANGED <<ledgerMails, eventLog, head, mempool, txCount, storageVars, serviceVars,
                 cryptoVars, callVars>>

\* the client and the ledger, with restarts of the client
SpecRestart == Init /\ [][Mine \/ ForeignMail \/ ClientNext \/ ClientCrash]_vars

\* the service's send route, the loading of the verification key in start()
\* and the ledger
SpecGate == Init /\ [][Mine \/ BootstrapQuery \/ RouteNext]_vars

\* ------------------------------------------------------------------------
\* Concurrent sendMail calls of one client at their commit step
\* ------------------------------------------------------------------------
\* ipfs.upload(envelope) returns the handle to call w
DUpload(w) ==
  /\ dispatches[w].pc = "idle"
  /\ \E cid \in Cids \cup ForeignCids :
       dispatches' = [dispatches EXCEPT ![w] = [pc |-> "commit", cid |-> cid]]
  /\ UNCHANGED <<generated, extraction, persistCall, retrieval, boxes, ledgerVars, storageVars, clientVars,
                 serviceVars, cryptoVars>>

\* call w runs cidStore.set(cidToBytes32(cid), cid): Map.set runs within the
\* call, the caller awaits the promise
DRemember(w) ==
  /\ dispatches[w].pc = "commit"
  /\ clientCidStore' = CidStoreSet(clientCidStore, cidToBytes32(dispatches[w].cid),
                                   dispatches[w].cid)
  /\ dispatches' = [dispatches EXCEPT ![w].pc = "await"]
  /\ UNCHANGED <<generated, extraction, client, persistCall, retrieval, boxes, ledgerVars, storageVars, serviceVars,
                 cryptoVars>>

\* the promise of cidStore.set resolves and call w goes on
DResume(w) ==
  /\ dispatches[w].pc = "await"
  /\ dispatches' = [dispatches EXCEPT ![w].pc = "written"]
  /\ UNCHANGED <<generated, extraction, persistCall, retrieval, boxes, ledgerVars, storageVars, clientVars,
                 serviceVars, cryptoVars>>

SpecConcurrent ==
  InitRetrieve /\ [][\E w \in 1..MaxWriters : DUpload(w) \/ DRemember(w) \/ DResume(w)]_vars

\* ------------------------------------------------------------------------
\* Mail id extraction from the logs of a receipt
\* ------------------------------------------------------------------------
\* the logs a receipt may hold: logs of another signature and MailSent events
ReceiptLogSeqs ==
  LET logs == {[topic |-> "Other(uint256)"]}
                \cup {[topic |-> MailSentTopic, mailId |-> id] : id \in 1..MaxLogs}
  IN UNION {[1..n -> logs] : n \in 0..MaxLogs}

\* the client and the service read the mail id from the logs of one receipt
ExtractIds ==
  /\ extraction = None
  /\ \E logs \in ReceiptLogSeqs :
       extraction' = Ok([logs |-> logs, client |-> extractMailIdFromReceipt(logs),
                         service |-> extractMailId(logs)])
  /\ UNCHANGED <<dispatches, generated, persistCall, retrieval, boxes, ledgerVars, storageVars,
                 clientVars, serviceVars, cryptoVars>>

SpecExtract == Init /\ [][ExtractIds]_vars

\* ------------------------------------------------------------------------
\* retrieveMail with a backend answering the declared type of
\* BackendAPI.getMail, { mail: MailRecord }
\* ------------------------------------------------------------------------
\* backend.getMail(mailId) returns the MailRecord of the mail, whose
\* contentCID is the bytes32 of the ledger; the client reads
\* mail.contentCID and remembers it under cidKey
CBackendRecord ==
  /\ retrieval.pc = "backend"
  /\ LET record == normalizeMailRecords(<<mailerGetMail(ledgerMails, retrieval.mailId)>>)[1]
         answer == Ok([record EXCEPT !.mailId = retrieval.mailId])
         cid == FieldOf(answer.value, "contentCID")
     IN /\ retrieval' =
             IF cid.status = "ok" /\ cid.value # ""
             THEN [retrieval EXCEPT !.pc = "fetch", !.answer = answer, !.cid = cid.value]
             ELSE [retrieval EXCEPT !.pc = "failed", !.answer = answer,
                                    !.error = CidNotFound]
        /\ clientCidStore' =
             IF cid.status = "ok" /\ cid.value # ""
             THEN CidStoreSet(clientCidStore, retrieval.cidKey, cid.value)
             ELSE clientCidStore
  /\ UNCHANGED <<moreVars, client, persistCall, boxes, ledgerVars, storageVars, serviceVars, cryptoVars>>

\* a client retrieving mails through a backend of either kind
SpecBackend == InitRetrieve /\ [][ForeignMail \/ IngestNext \/ RetrieveNext \/ CBackendRecord]_vars

\* ------------------------------------------------------------------------
\* Properties of the encryption engine
\* ------------------------------------------------------------------------
\* the failures the error taxonomy calls IntegrityError: a wrap-MAC mismatch
\* or an authentication-tag mismatch
IntegrityError == {MacMismatch, AuthFailed}

UnsupportedVersionError == "UnsupportedVersionError"

HonestDecrypt ==
  /\ decrypted # None
  /\ pkg = encrypted
  /\ decryptKey = recipientPrivateKey

\* C1: decrypting the envelope encrypt produced, with the private key of the
\* public key it was produced for, returns the input content (with the
\* timestamp encrypt assigned when the input had none).
RoundTrip ==
  LET Canonical ==
        [from |-> content.from, to |-> content.to, subject |-> content.subject,
         body |-> content.body,
         timestamp |-> IF "timestamp" \in DOMAIN content THEN content.timestamp
                       ELSE encrypted.value.metadata.timestamp]
  IN HonestDecrypt => decrypted = Ok(Canonical)

RoundTripWitness ==
  /\ HonestDecrypt
  /\ decrypted.status = "ok"
  /\ "timestamp" \notin DOMAIN content
  /\ decrypted.value.body = content.body

TamperedEnvelope ==
  /\ pkg.status = "ok"
  /\ pkg # encrypted
  /\ pkg.value.version = encrypted.value.version

WrongKeyRejection ==
  (/\ decrypted # None
   /\ pkg = encrypted
   /\ decryptKey # recipientPrivateKey
   /\ isValidPrivateKey(decryptKey))
    => (decrypted.status = "error" /\ decrypted.error \in IntegrityError)

\* C4: decrypt with the recipient's key on an envelope whose version the
\* engine does not recognize fails with UnsupportedVersionError.
UnknownVersionRejected ==
  (/\ decrypted # None
   /\ pkg.value.version # EngineVersion
   /\ decryptKey = recipientPrivateKey)
    => (decrypted.status = "error" /\ decrypted.error = UnsupportedVersionError)


\* C15: two encrypt calls on the same content for the same recipient use a
\* different symmetric key, nonce and ephemeral key: their envelopes differ
\* in the ephemeral public key, the nonce and the ciphertext.
FreshKeyMaterial ==
  \A i, j \in 1..Len(envelopes) :
    i # j =>
      /\ envelopes[i].encryptedKey.ephemeralPublicKey
           # envelopes[j].encryptedKey.ephemeralPublicKey
      /\ envelopes[i].encryptedContent.iv # envelopes[j].encryptedContent.iv
      /\ envelopes[i].encryptedContent.ciphertext # envelopes[j].encryptedContent.ciphertext

FreshKeyMaterialWitness ==
  /\ Len(envelopes) = 2
  /\ envelopes[1].metadata.timestamp = envelopes[2].metadata.timestamp
  /\ envelopes[1].encryptedKey.ephemeralPublicKey # envelopes[2].encryptedKey.ephemeralPublicKey

Position(steps, step) ==
  IF \E i \in 1..Len(steps) : steps[i] = step
  THEN CHOOSE i \in 1..Len(steps) : steps[i] = step /\ \A j \in 1..(i - 1) : steps[j] # step
  ELSE 0

NonZeroEphemeralKey ==
  \A g \in generated :
    /\ g.key # 0
    /\ g.key = g.draws[Len(g.draws)]
    /\ g.ephemeralPublicKey.status = "ok" => g.ephemeralPublicKey.value = getPublicKey(g.key)

NonZeroEphemeralKeyWitness ==
  \E g \in generated :
    /\ Len(g.draws) = 2
    /\ g.draws[1] = 0
    /\ g.key # 0
    /\ g.ephemeralPublicKey.status = "ok"

\* ------------------------------------------------------------------------
\* Properties of the dispatch protocol
\* ------------------------------------------------------------------------
\* the mail id the ledger assigned in the transaction
LedgerAssigned(hash, mailId) ==
  \E i \in 1..Len(ledgerMails) :
    ledgerMails[i].txHash = hash /\ ToString(ledgerMails[i].mailId) = mailId

\* C5: sendMail to a recipient whose owner the registry resolves to the zero
\* address fails at the resolve step; no encryption, upload, commitment-map
\* write, proof generation or submission is performed in that call.
RecipientUnregisteredAborts ==
  (client.from # "" /\ client.to # "" /\ resolveEmail(client.to) = ZeroAddress)
    => (client.pc = "resolve" \/ (client.pc = "failed" /\ client.failedAt = "resolve"))

\* C6: the mail id a successful send returns, and the key under which the
\* service indexes the sent mail, is the id the ledger assigned in the
\* confirmed transaction.
ReturnedIdIsLedgerId ==
  /\ client.pc = "done" => LedgerAssigned(client.result.txHash, client.result.mailId)
  /\ (route.pc = "responded" /\ route.response.status = 200)
       => /\ LedgerAssigned(route.response.txHash, route.response.mailId)
          /\ \E i \in 1..Len(mails) :
               mails[i].mailId = route.response.mailId
                 /\ mails[i].txHash = route.response.txHash

\* C7: whenever BaseMailerClient.sendMail reports an error, the ledger holds
\* no mail record created by the transaction of that call.
FailedSendLeavesLedger ==
  client.pc = "failed" =>
    ~\E i \in 1..Len(ledgerMails) : ledgerMails[i].txHash = client.txHash

\* C8: after a dispatch completes successfully, an index record keyed by the
\* ledger-assigned mail id holds the handle, the commitment, the parties and
\* the transaction reference.
SuccessfulDispatchIndexed ==
  /\ client.pc = "done" =>
       \E i \in 1..Len(mails) :
         /\ LedgerAssigned(client.txHash, mails[i].mailId)
         /\ mails[i].cid = client.cid
         /\ mails[i].contentHash = cidToBytes32(client.cid)
         /\ mails[i].senderEmail = client.from
         /\ mails[i].recipientEmail = client.to
         /\ mails[i].txHash = client.txHash
  /\ (route.pc = "responded" /\ route.response.status = 200) =>
       \E i \in 1..Len(mails) :
         /\ LedgerAssigned(route.response.txHash, mails[i].mailId)
         /\ mails[i].txHash = route.response.txHash

\* ------------------------------------------------------------------------
\* Properties of the ingestion protocol
\* ------------------------------------------------------------------------
RecordsOf(index, mailId) == {i \in 1..Len(index) : index[i].mailId = mailId}

AppliedTwice(e) ==
  /\ boot.pc = "listening"
  /\ eventLog[e].blockNumber >= boot.startBlock
  /\ eventLog[e].blockNumber <= boot.current
  /\ eventLog[e].blockNumber >= boot.liveFrom
  /\ e <= boot.livePos

BoundaryOverlap ==
  /\ boot.pc = "listening"
  /\ boot.startBlock <= boot.current
  /\ boot.liveFrom = boot.current
  /\ boot.livePos = Len(eventLog)

EventsFrom(block) == {e \in 1..Len(eventLog) : eventLog[e].blockNumber >= block}

\* C10: with the events up to block B delivered by catch-up and those from B
\* on by the live stream, B's by both, the index holds exactly one record for
\* every mail id of the range and no other record.
GapFreeReplay ==
  BoundaryOverlap =>
    /\ \A e \in EventsFrom(boot.startBlock) :
         Cardinality(RecordsOf(mails, ToString(eventLog[e].mailId))) = 1
    /\ \A i \in 1..Len(mails) :
         \E e \in EventsFrom(boot.startBlock) : mails[i].mailId = ToString(eventLog[e].mailId)

GapFreeReplayWitness ==
  /\ BoundaryOverlap
  /\ \E e \in 1..Len(eventLog) : AppliedTwice(e)
  /\ \E e \in 1..Len(eventLog) : eventLog[e].blockNumber > boot.current
  /\ Len(mails) = Len(eventLog)
  /\ Len(mails) >= 2

\* ------------------------------------------------------------------------
\* Properties of the dispatch steps
\* ------------------------------------------------------------------------
\* C20: within one sendMail call the steps start in the order resolve,
\* encrypt, store, commit, prove, submit, each at most once; a failing step is
\* the last one started and the error sendMail throws identifies that step.
StrictDispatch ==
  LET DispatchOrder == <<"resolve", "encrypt", "upload", "commit", "prove", "submit">>
      IsPrefix(s, t) == Len(s) <= Len(t) /\ \A i \in 1..Len(s) : s[i] = t[i]
      \* the dispatch steps whose awaited calls can reject with the error
      StepsRaising(error) ==
        {DispatchOrder[i] : i \in {j \in 1..Len(DispatchOrder) :
                                     error \in ErrorsOf(DispatchOrder[j])}}
  IN /\ IsPrefix(client.steps, DispatchOrder)
     /\ (client.pc = "failed" /\ client.failedAt # "") =>
          /\ client.steps # <<>>
          /\ client.steps[Len(client.steps)] = client.failedAt
          /\ StepsRaising(client.error) = {client.failedAt}

\* C18: every record the client returns from getInbox or getSentbox carries
\* the mail id the ledger assigned to that mail.
ClientIdsAreLedgerIds ==
  boxes.status = "ok" =>
    \A r \in 1..Len(boxes.value.records) :
      \E i \in 1..Len(ledgerMails) :
        /\ ledgerMails[i].mailId = boxes.value.records[r].mailId
        /\ MailTuple(ledgerMails[i]) = MailTuple(boxes.value.records[r])

\* C14: retrieveMail declares the content unreachable only when the
\* commitment resolves neither in the local commitment map nor through the
\* configured backend; a handle the backend holds is remembered locally.
HandleResolution ==
  \* the backend's answer holds the handle of the commitment
  LET Resolves(answer, commitment) ==
        /\ answer.status = "ok"
        /\ answer.value.contentHash = commitment
        /\ cidToBytes32(answer.value.cid) = commitment
  IN
  /\ (retrieval.pc = "failed" /\ retrieval.error = CidNotFound) =>
       /\ CidStoreGet(clientCidStore, retrieval.cidKey).status # "ok"
       /\ retrieval.backend => ~Resolves(retrieval.answer, retrieval.cidKey)
  /\ Resolves(retrieval.answer, retrieval.cidKey) =>
       CidStoreGet(clientCidStore, retrieval.cidKey) = Ok(retrieval.answer.value.cid)

\* C11: an event that lacks a mail id or a commitment is dropped: the index
\* and the commitment map are as they were before the call.
PartialEventDropped ==
  (/\ persistCall.status = "ok"
   /\ persistCall.value.mailId = "" \/ persistCall.value.contentCID = "") =>
    /\ mails = persistCall.value.mails
    /\ serviceCidStore = persistCall.value.cidStore

PartialEventDroppedWitness ==
  /\ persistCall.status = "ok"
  /\ persistCall.value.mailId = "" \/ persistCall.value.contentCID = ""
  /\ persistCall.value.mailId # "" \/ persistCall.value.contentCID # ""
  /\ mails # <<>>
  /\ mails = persistCall.value.mails

\* C12: every record of the service's index holds the handle of its
\* commitment: contentHash = cidToBytes32(cid).
IndexedCommitmentOfHandle ==
  \A i \in DOMAIN mails : mails[i].contentHash = cidToBytes32(mails[i].cid)

\* C13: cidToBytes32 is a function of the handle alone: equal handles have
\* equal commitments and unequal handles unequal ones, whatever the
\* commitment maps hold and whichever sends came before.
CommitmentOfHandle ==
  /\ \A a, b \in (Cids \cup ForeignCids) : (a = b) <=> (cidToBytes32(a) = cidToBytes32(b))
  /\ \A key \in DOMAIN clientCidStore : key = cidToBytes32(clientCidStore[key])
  /\ \A a, b \in DOMAIN clientCidStore : clientCidStore[a] = clientCidStore[b] => a = b
  /\ client.pc \in {"prove", "submit", "wait", "done"} =>
       /\ CidStoreGet(clientCidStore, cidToBytes32(client.cid)) = Ok(client.cid)
       /\ \A key \in DOMAIN clientCidStore :
            (key = cidToBytes32(client.cid)) <=> (clientCidStore[key] = client.cid)

CommitmentOfHandleWitness ==
  /\ client.pc = "done"
  /\ Cardinality(DOMAIN clientCidStore) = 2
  /\ CidStoreGet(clientCidStore, cidToBytes32(client.cid)) = Ok(client.cid)

\* C16: POST /api/send-mail is gated by the ownership proof: a request whose
\* proof the verifier rejects is never pinned and never submitted.
ProofGate ==
  route.pc \in {"pin", "submit", "wait"} => ~(~groth16verify(publicSignals(route.owner, route.senderEmail, cidToBytes32(route.cid)), route.proof))

\* C17: the inbox query for an address returns the indexed mails the ledger
\* delivered to that address, and the sentbox query the indexed mails the
\* ledger took from it, also for mails indexed by event ingestion.
BoxesHoldIngested ==
  LET Listed(box, record) == \E k \in 1..Len(box) : box[k] = record
  IN
  \A i \in 1..Len(ledgerMails), j \in 1..Len(mails) :
    mails[j].mailId = ToString(ledgerMails[i].mailId) =>
      /\ Listed(getInbox(mails, ledgerMails[i].recipientEmail), mails[j])
      /\ Listed(getSentbox(mails, ledgerMails[i].senderEmail), mails[j])

\* C21: the pair (commitment, handle) is in the sender's commitment map
\* before its transaction is sent: whenever the ledger holds a record the
\* client submitted, also after a restart of the client, the client's
\* commitment map resolves the record's commitment to the handle.
CommittedBeforeSubmission ==
  LET Resolved(cidStore, commitment) ==
        /\ CidStoreGet(cidStore, commitment).status = "ok"
        /\ cidToBytes32(CidStoreGet(cidStore, commitment).value) = commitment
  IN \A i \in 1..Len(ledgerMails) :
       ledgerMails[i].signer = "client" =>
         Resolved(clientCidStore, ledgerMails[i].contentCID)

\* C22: the live subscription takes over without a gap: once the listener
\* has been called with every event of the live stream, every MailSent event
\* of a block at or after the start block is in the index, also the events
\* mined while catch-up was running.
NoBoundaryGap ==
  (boot.pc = "listening" /\ boot.livePos = Len(eventLog)) =>
    \A e \in 1..Len(eventLog) :
      eventLog[e].blockNumber >= boot.startBlock =>
        RecordsOf(mails, ToString(eventLog[e].mailId)) # {}

\* C23: concurrent sendMail calls sharing one commitment map lose no
\* remember: two calls that wrote the same commitment wrote the same handle,
\* and once every call has written, the map resolves each written commitment
\* to the handle it is the commitment of.
NoLostRemember ==
  /\ \A v, w \in 1..MaxWriters :
       (dispatches[v].pc # "idle" /\ dispatches[w].pc # "idle"
          /\ cidToBytes32(dispatches[v].cid) = cidToBytes32(dispatches[w].cid))
         => dispatches[v].cid = dispatches[w].cid
  /\ (\A w \in 1..MaxWriters : dispatches[w].pc = "written") =>
       \A w \in 1..MaxWriters :
         CidStoreGet(clientCidStore, cidToBytes32(dispatches[w].cid)) = Ok(dispatches[w].cid)

NoLostRememberWitness ==
  /\ \A w \in 1..MaxWriters : dispatches[w].pc = "written"
  /\ \E v, w \in 1..MaxWriters : v # w /\ dispatches[v].cid = dispatches[w].cid
  /\ \E v, w \in 1..MaxWriters : dispatches[v].cid # dispatches[w].cid
  /\ \A w \in 1..MaxWriters :
       CidStoreGet(clientCidStore, cidToBytes32(dispatches[w].cid)) = Ok(dispatches[w].cid)

\* C24: the proof sendMail generates for a message verifies against the
\* public signals the service's verifier lays out for that message: sender
\* owner address, content commitment, hash of the sender email.
ClientProofVerifies ==
  client.pc \in {"submit", "wait", "done"} =>
    groth16verify(publicSignals(resolveEmail(client.from), client.from,
                                cidToBytes32(client.cid)),
                  client.proof)

\* the ledger records the client submitted for the handle
ClientRecordsOf(cid) ==
  {i \in 1..Len(ledgerMails) :
     ledgerMails[i].signer = "client" /\ ledgerMails[i].contentCID = cidToBytes32(cid)}

\* C26: a sendMail call that follows a call with the same content which
\* failed at the store step or at the prove step runs every dispatch step
\* again with a new handle, and when it succeeds the ledger holds exactly one
\* record for the message, that of the new handle.
RetryRecovers ==
  (client.pc = "done" /\ client.retryOf.failedAt \in {"upload", "prove"}) =>
    /\ client.steps = <<"resolve", "encrypt", "upload", "commit", "prove", "submit">>
    /\ client.cid # client.retryOf.cid
    /\ Cardinality(ClientRecordsOf(client.cid)) = 1
    /\ ClientRecordsOf(client.retryOf.cid) = {}
    /\ CidStoreGet(clientCidStore, cidToBytes32(client.cid)) = Ok(client.cid)

RetryRecoversWitness ==
  /\ client.pc = "done"
  /\ client.retryOf.failedAt = "prove"
  /\ client.retryOf.cid \in ipfsObjects
  /\ Cardinality(ClientRecordsOf(client.cid)) = 1

\* C27: mail id extraction returns the mail id of the first log with the
\* MailSent signature, in log order: logs of another signature before it are
\* skipped and MailSent logs after it are ignored.
FirstMatchingLog ==
  extraction.status = "ok" =>
    LET logs == extraction.value.logs
        matching == {i \in 1..Len(logs) : logs[i].topic = MailSentTopic}
        first == CHOOSE i \in matching : \A j \in matching : i <= j
        expected == IF matching = {} THEN None ELSE Ok(ToString(logs[first].mailId))
    IN /\ extraction.value.client = expected
       /\ extraction.value.service = expected

FirstMatchingLogWitness ==
  /\ extraction.status = "ok"
  /\ LET logs == extraction.value.logs
     IN /\ Len(logs) >= 3
        /\ logs[1].topic # MailSentTopic
        /\ logs[2].topic = MailSentTopic
        /\ logs[3].topic = MailSentTopic
        /\ logs[2].mailId # logs[3].mailId
        /\ extraction.value.client = Ok(ToString(logs[2].mailId))
        /\ extraction.value.service = Ok(ToString(logs[2].mailId))

\* C28: a request that POST /api/send-mail rejects before submission (sender
\* email not registered, invalid proof) writes no service state: no step of
\* the route changes the index, the commitment map or the pinned handles or
\* sends a transaction for a request that is rejected.
RejectedRequestWritesNothing ==
  [][(/\ route.pc \notin {"idle", "responded"}
      /\ \/ resolveEmail(route.senderEmail) = ZeroAddress
         \/ ~verifyProof(verificationKey, route.proof, resolveEmail(route.senderEmail),
                         route.senderEmail, cidToBytes32(route.cid)))
       => /\ mails' = mails
          /\ serviceCidStore' = serviceCidStore
          /\ pinned' = pinned
          /\ txCount' = txCount]_vars

\* C29: for a mail sent through the send route, the route's save and the
\* listener's upsert write the same record, so the record of the mail does
\* not depend on which of the two is applied last: while the service is
\* listening, a step that writes the record of a transaction mined since the
\* listener was registered, and already in the index, leaves it as it is.
SameRecordEitherOrder ==
  [][boot.pc = "listening"
       => \A i \in 1..Len(mails), j \in 1..Len(mails') :
            (/\ mails[i].blockNumber >= boot.liveFrom
             /\ mails'[j].mailId = mails[i].mailId
             /\ mails'[j].txHash = mails[i].txHash)
              => mails'[j] = mails[i]]_vars

\* C30: in every state of the client and of the service, every entry of
\* the commitment map has for key the commitment of its value,
\* key = cidToBytes32(value).
CommitmentMapSound ==
  \A store \in {clientCidStore, serviceCidStore} :
    \A key \in DOMAIN store : key = cidToBytes32(store[key])

====
